---- MODULE Spec2Model ----
(***************************************************************************)
(* A model of src/src/state/BezierSegmentState.ts: bezier segments with    *)
(* four point fields and two link fields, their constructors and setters, *)
(* the chain synchronization of setPreviousSegment / setNextSegment /      *)
(* setStart / setEnd, as whole calls and statement by statement on a call  *)
(* stack, and approximate over the uniform sampling of the curve.          *)
(*                                                                         *)
(* Vectors (Vec2 | Vec3) are modelled on one axis: a vector is an integer  *)
(* (a Vec2 whose y is 0). On that axis add, sub and mul are integer        *)
(* arithmetic, length is the absolute value and normalize is the sign, so  *)
(* every operation of the class is computed exactly.                       *)
(***************************************************************************)
EXTENDS Integers, FiniteSets, Sequences, TLC

\* ---------------------------------------------------------------- bounds
\* NumSegments segments exist; constructor and setter arguments are drawn from
\* 0..MaxInput; a call is explored while every point it leaves lies within
\* -MaxCoord..MaxCoord; a run makes at most MaxSteps calls (MaxLinkSteps
\* under SpecLink, MaxFlagSteps under SpecFlags, MaxCurveSteps under
\* SpecCurve, MaxCurveLinkSteps under SpecCurveLink, MaxStackSteps under
\* SpecStack, where the call stack is explored up to MaxDepth frames,
\* MaxApproxSteps under SpecApprox, where up to MaxPoints points are sampled).
NumSegments == 3
MaxCoord == 2
MaxInput == 1
MaxSteps == 3
MaxLinkSteps == 4
MaxFlagSteps == 2
MaxCurveSteps == 2
MaxCurveLinkSteps == 1
MaxStackSteps == 3
MaxDepth == 4
MaxApproxSteps == 2
MaxPoints == 3

Seg == 1..NumSegments
Null == 0
SegOrNull == Seg \cup {Null}
Coord == (0 - MaxCoord)..MaxCoord
Input == 0..MaxInput
\* The unit vectors of the axis, the directions handed to the direction setters.
Directions == {v \in Coord : v * v = 1}

VARIABLES start, startControl, endControl, end, previous, next, last, steps,
          stack

vars == <<start, startControl, endControl, end, previous, next, last, steps,
          stack>>

\* ---------------------------------------------------------------- vectors
\* Vec.length(): the Euclidean norm, on one axis the absolute value.
Length(v) == IF v < 0 THEN 0 - v ELSE v

\* Vec.normalize(): the vector scaled to length 1; the zero vector is
\* returned as the zero vector.
Normalize(v) == IF v > 0 THEN 1 ELSE IF v < 0 THEN 0 - 1 ELSE 0

\* ---------------------------------------------------------------- heap
\* The fields of all segments, as one record of functions over Seg.
Heap ==
    [start |-> start, startControl |-> startControl, endControl |-> endControl,
     end |-> end, previous |-> previous, next |-> next]

getStart(h, self) == h.start[self]
getEnd(h, self) == h.end[self]
getStartControl(h, self) == h.startControl[self]
getEndControl(h, self) == h.endControl[self]
getPreviousSegment(h, self) == h.previous[self]
getNextSegment(h, self) == h.next[self]

getStartDirection(h, self) == Normalize(h.startControl[self] - h.start[self])
getEndDirection(h, self) == Normalize(h.endControl[self] - h.end[self])

getStartControlDelta(h, self) == h.startControl[self] - h.start[self]
getEndControlDelta(h, self) == h.endControl[self] - h.end[self]

\* getPlain(): the cached plain bezier, the four stored fields.
getPlain(h, self) ==
    [start |-> h.start[self], startControl |-> h.startControl[self],
     endControl |-> h.endControl[self], end |-> h.end[self]]

setStartControl(h, self, vec) == [h EXCEPT !.startControl[self] = vec]
setEndControl(h, self, vec) == [h EXCEPT !.endControl[self] = vec]

setStartControlDelta(h, self, vec) ==
    [h EXCEPT !.startControl[self] = vec - h.start[self]]
setEndControlDelta(h, self, vec) ==
    [h EXCEPT !.endControl[self] = vec - h.end[self]]

setStartDirection(h, self, direction) ==
    LET length == Length(getStartControlDelta(h, self))
    IN  setStartControlDelta(h, self, Normalize(direction) * length)
setEndDirection(h, self, direction) ==
    LET length == Length(getEndControlDelta(h, self))
    IN  setEndControlDelta(h, self, Normalize(direction) * length)

\* moveStart moving the anchor alone, as setStart does.
moveStartAnchorOnly(h, self, vec) == [h EXCEPT !.start[self] = vec]
moveStart(h, self, vec) ==
    LET delta == h.startControl[self] - h.start[self]
        h1 == [h EXCEPT !.startControl[self] = vec + delta]
    IN  [h1 EXCEPT !.start[self] = vec]
moveEnd(h, self, vec) ==
    LET delta == h.endControl[self] - h.end[self]
        h1 == [h EXCEPT !.endControl[self] = vec + delta]
    IN  [h1 EXCEPT !.end[self] = vec]

\* ---------------------------------------------------------------- sampling
\* The point of the cubic bezier at parameter k / m, in units of 1 / m^3
\* (the Bernstein form with its denominator cleared).
getPointOnBezier(bezier, k, m) ==
    LET j == m - k
    IN  j * j * j * bezier.start + 3 * j * j * k * bezier.startControl
          + 3 * j * k * k * bezier.endControl + k * k * k * bezier.end

\* sampleBezier(bezier, points): points nodes at uniform parameter steps over
\* [0, 1], both ends included; for one point the start alone.
sampleBezier(bezier, points) ==
    IF points = 1
    THEN <<[point |-> bezier.start, t |-> 0]>>
    ELSE [i \in 1..points |->
            [point |-> getPointOnBezier(bezier, i - 1, points - 1), t |-> i - 1]]

\* Array.slice(0, -1): all elements but the last.
SliceButLast(nodes) == SubSeq(nodes, 1, Len(nodes) - 1)

\* approximate that drops the first node instead of the last.
approximateDropFirst(h, self, points, skipLast) ==
    LET nodes == sampleBezier(getPlain(h, self), points)
        out == IF skipLast THEN SubSeq(nodes, 2, Len(nodes)) ELSE nodes
    IN  [i \in 1..Len(out) |-> out[i].point]
approximate(h, self, points, skipLast) ==
    LET nodes == sampleBezier(getPlain(h, self), points)
        out == IF skipLast THEN SliceButLast(nodes) ELSE nodes
    IN  [i \in 1..Len(out) |-> out[i].point]

RECURSIVE setStart(_, _, _, _), setEnd(_, _, _, _)
\* setStart calling into the previous segment with sync left enabled.
setStartSyncNeighbour(h, self, vec, sync) ==
    LET h1 == [h EXCEPT !.start[self] = vec]
        prev == h1.previous[self]
    IN  IF sync /\ prev # Null THEN setEnd(h1, prev, vec, TRUE) ELSE h1
setStart(h, self, vec, sync) ==
    LET h1 == [h EXCEPT !.start[self] = vec]
        prev == h1.previous[self]
    IN  IF sync /\ prev # Null THEN setEnd(h1, prev, vec, FALSE) ELSE h1
setEnd(h, self, vec, sync) ==
    LET h1 == [h EXCEPT !.end[self] = vec]
        nxt == h1.next[self]
    IN  IF sync /\ nxt # Null THEN setStart(h1, nxt, vec, FALSE) ELSE h1

RECURSIVE setPreviousSegment(_, _, _, _, _), setNextSegment(_, _, _, _, _)
setPreviousSegment(h, self, segment, sync, copyDirection) ==
    LET current == h.previous[self]
        h1 == IF sync /\ current # Null
              THEN setNextSegment(h, current, Null, FALSE, FALSE)
              ELSE h
        h2 == [h1 EXCEPT !.previous[self] = segment]
        newStart == getEnd(h2, segment)
        h3 == [h2 EXCEPT !.start[self] = newStart]
        h4 == IF copyDirection
              THEN setStartDirection(h3, self, getEndDirection(h3, segment) * (0 - 1))
              ELSE h3
        h5 == IF sync THEN setNextSegment(h4, segment, self, FALSE, FALSE) ELSE h4
    IN  IF segment = current THEN h
        ELSE IF segment # Null THEN h5
        ELSE [h1 EXCEPT !.previous[self] = Null]
\* setNextSegment without the reference-identity check of its first lines.
setNextSegmentNoIdentityCheck(h, self, segment, sync, copyDirection) ==
    LET current == h.next[self]
        h1 == IF sync /\ current # Null
              THEN setPreviousSegment(h, current, Null, FALSE, TRUE)
              ELSE h
        h2 == [h1 EXCEPT !.next[self] = segment]
        newEnd == getStart(h2, segment)
        h3 == [h2 EXCEPT !.start[self] = newEnd]
        h4 == IF copyDirection
              THEN setEndDirection(h3, self, getStartDirection(h3, segment) * (0 - 1))
              ELSE h3
        h5 == IF sync THEN setPreviousSegment(h4, segment, self, FALSE, TRUE) ELSE h4
    IN  IF segment # Null THEN h5
        ELSE [h1 EXCEPT !.next[self] = Null]
\* setNextSegment that does not unlink the segment it replaces.
setNextSegmentKeepCurrent(h, self, segment, sync, copyDirection) ==
    LET current == h.next[self]
        h2 == [h EXCEPT !.next[self] = segment]
        newEnd == getStart(h2, segment)
        h3 == [h2 EXCEPT !.start[self] = newEnd]
        h4 == IF copyDirection
              THEN setEndDirection(h3, self, getStartDirection(h3, segment) * (0 - 1))
              ELSE h3
        h5 == IF sync THEN setPreviousSegment(h4, segment, self, FALSE, TRUE) ELSE h4
    IN  IF segment = current THEN h
        ELSE IF segment # Null THEN h5
        ELSE [h EXCEPT !.next[self] = Null]
\* setNextSegment whose reciprocal call leaves sync at its default, true.
setNextSegmentSyncReciprocal(h, self, segment, sync, copyDirection) ==
    LET current == h.next[self]
        h1 == IF sync /\ current # Null
              THEN setPreviousSegment(h, current, Null, FALSE, TRUE)
              ELSE h
        h2 == [h1 EXCEPT !.next[self] = segment]
        newEnd == getStart(h2, segment)
        h3 == [h2 EXCEPT !.start[self] = newEnd]
        h4 == IF copyDirection
              THEN setEndDirection(h3, self, getStartDirection(h3, segment) * (0 - 1))
              ELSE h3
        h5 == IF sync THEN setPreviousSegment(h4, segment, self, TRUE, TRUE) ELSE h4
    IN  IF segment = current THEN h
        ELSE IF segment # Null THEN h5
        ELSE [h1 EXCEPT !.next[self] = Null]
\* setNextSegment copying the start of the segment it unlinks when it is given
\* null.
setNextSegmentUnlinkCopies(h, self, segment, sync, copyDirection) ==
    LET current == h.next[self]
        h1 == IF sync /\ current # Null
              THEN setPreviousSegment(h, current, Null, FALSE, TRUE)
              ELSE h
        h2 == [h1 EXCEPT !.next[self] = segment]
        newEnd == getStart(h2, segment)
        h3 == [h2 EXCEPT !.start[self] = newEnd]
        h4 == IF copyDirection
              THEN setEndDirection(h3, self, getStartDirection(h3, segment) * (0 - 1))
              ELSE h3
        h5 == IF sync THEN setPreviousSegment(h4, segment, self, FALSE, TRUE) ELSE h4
    IN  IF segment = current THEN h
        ELSE IF segment # Null THEN h5
        ELSE [h1 EXCEPT !.next[self] = Null, !.start[self] = getStart(h1, current)]
setNextSegment(h, self, segment, sync, copyDirection) ==
    LET current == h.next[self]
        h1 == IF sync /\ current # Null
              THEN setPreviousSegment(h, current, Null, FALSE, TRUE)
              ELSE h
        h2 == [h1 EXCEPT !.next[self] = segment]
        newEnd == getStart(h2, segment)
        h3 == [h2 EXCEPT !.start[self] = newEnd]
        h4 == IF copyDirection
              THEN setEndDirection(h3, self, getStartDirection(h3, segment) * (0 - 1))
              ELSE h3
        h5 == IF sync THEN setPreviousSegment(h4, segment, self, FALSE, TRUE) ELSE h4
    IN  IF segment = current THEN h
        ELSE IF segment # Null THEN h5
        ELSE [h1 EXCEPT !.next[self] = Null]

\* ---------------------------------------------------------------- state
\* new BezierSegmentState(start, end): the straight segment.
Straight(s, e) == [start |-> s, startControl |-> s, endControl |-> e, end |-> e]

\* new BezierSegmentState(start, startControl, endControl, end): the curve.
Curve(s, sc, ec, e) ==
    [start |-> s, startControl |-> sc - s, endControl |-> ec - e, end |-> e]

\* Every point of every segment lies within the explored coordinates.
InRange(h) ==
    \A s \in Seg :
        /\ h.start[s] \in Coord
        /\ h.startControl[s] \in Coord
        /\ h.endControl[s] \in Coord
        /\ h.end[s] \in Coord

\* The record of the last call: the method, its receiver and arguments, the
\* local `current` of a link call (the neighbour it found), whether that
\* neighbour pointed back at the receiver, and whether the call repeats the
\* call before it; for a constructor call its arguments, for a call that
\* returns points the points returned and the heap it was called on, for a
\* call executed statement by statement the heap that the method computes.
NoCall == [op |-> "new", self |-> Null, segment |-> Null, vec |-> 0,
           sync |-> FALSE, copyDirection |-> FALSE,
           current |-> Null, mutual |-> FALSE, again |-> FALSE,
           args |-> <<>>, skipLast |-> FALSE, out |-> <<>>, heap |-> <<>>]

SameCall(l, m) ==
    /\ l.op = m.op
    /\ l.self = m.self
    /\ l.segment = m.segment
    /\ l.vec = m.vec
    /\ l.sync = m.sync
    /\ l.copyDirection = m.copyDirection

Init ==
    /\ \E c \in [Seg -> Input \X Input] :
        /\ start = [s \in Seg |-> Straight(c[s][1], c[s][2]).start]
        /\ startControl = [s \in Seg |-> Straight(c[s][1], c[s][2]).startControl]
        /\ endControl = [s \in Seg |-> Straight(c[s][1], c[s][2]).endControl]
        /\ end = [s \in Seg |-> Straight(c[s][1], c[s][2]).end]
    /\ previous = [s \in Seg |-> Null]
    /\ next = [s \in Seg |-> Null]
    /\ last = NoCall
    /\ steps = 0
    /\ stack = <<>>

\* Three unlinked segments, each made by the four-point constructor.
InitCurve ==
    /\ \E c \in [Seg -> Input \X Input \X Input \X Input] :
        LET new(s) == Curve(c[s][1], c[s][2], c[s][3], c[s][4])
        IN  /\ start = [s \in Seg |-> new(s).start]
            /\ startControl = [s \in Seg |-> new(s).startControl]
            /\ endControl = [s \in Seg |-> new(s).endControl]
            /\ end = [s \in Seg |-> new(s).end]
    /\ previous = [s \in Seg |-> Null]
    /\ next = [s \in Seg |-> Null]
    /\ last = NoCall
    /\ steps = 0
    /\ stack = <<>>

\* One call of a public method: the heap it leaves, and the record of the call.
Call(h, l) ==
    /\ InRange(h)
    /\ start' = h.start
    /\ startControl' = h.startControl
    /\ endControl' = h.endControl
    /\ end' = h.end
    /\ previous' = h.previous
    /\ next' = h.next
    /\ last' = [l EXCEPT !.again = SameCall(l, last)]
    /\ steps' = steps + 1
    /\ stack' = stack

CallSetPreviousSegment(self, segment, sync, copyDirection) ==
    Call(setPreviousSegment(Heap, self, segment, sync, copyDirection),
         [NoCall EXCEPT !.op = "setPreviousSegment", !.self = self,
                        !.segment = segment, !.sync = sync,
                        !.copyDirection = copyDirection,
                        !.current = previous[self],
                        !.mutual = /\ previous[self] # Null
                                   /\ next[previous[self]] = self])

CallSetNextSegment(self, segment, sync, copyDirection) ==
    Call(setNextSegment(Heap, self, segment, sync, copyDirection),
         [NoCall EXCEPT !.op = "setNextSegment", !.self = self,
                        !.segment = segment, !.sync = sync,
                        !.copyDirection = copyDirection,
                        !.current = next[self],
                        !.mutual = /\ next[self] # Null
                                   /\ previous[next[self]] = self])

CallSetStart(self, vec, sync) ==
    Call(setStart(Heap, self, vec, sync),
         [NoCall EXCEPT !.op = "setStart", !.self = self, !.vec = vec, !.sync = sync])

CallSetEnd(self, vec, sync) ==
    Call(setEnd(Heap, self, vec, sync),
         [NoCall EXCEPT !.op = "setEnd", !.self = self, !.vec = vec, !.sync = sync])

CallMoveStart(self, vec) ==
    Call(moveStart(Heap, self, vec),
         [NoCall EXCEPT !.op = "moveStart", !.self = self, !.vec = vec])

CallMoveEnd(self, vec) ==
    Call(moveEnd(Heap, self, vec),
         [NoCall EXCEPT !.op = "moveEnd", !.self = self, !.vec = vec])

CallSetStartControl(self, vec) ==
    Call(setStartControl(Heap, self, vec),
         [NoCall EXCEPT !.op = "setStartControl", !.self = self, !.vec = vec])

CallSetEndControl(self, vec) ==
    Call(setEndControl(Heap, self, vec),
         [NoCall EXCEPT !.op = "setEndControl", !.self = self, !.vec = vec])

CallSetStartControlDelta(self, vec) ==
    Call(setStartControlDelta(Heap, self, vec),
         [NoCall EXCEPT !.op = "setStartControlDelta", !.self = self, !.vec = vec])

CallSetEndControlDelta(self, vec) ==
    Call(setEndControlDelta(Heap, self, vec),
         [NoCall EXCEPT !.op = "setEndControlDelta", !.self = self, !.vec = vec])

CallSetStartDirection(self, direction) ==
    Call(setStartDirection(Heap, self, direction),
         [NoCall EXCEPT !.op = "setStartDirection", !.self = self, !.vec = direction])

CallSetEndDirection(self, direction) ==
    Call(setEndDirection(Heap, self, direction),
         [NoCall EXCEPT !.op = "setEndDirection", !.self = self, !.vec = direction])

\* approximate(points, skipLast): reads the plain bezier, writes no field.
CallApproximate(self, points, skipLast) ==
    Call(Heap,
         [NoCall EXCEPT !.op = "approximate", !.self = self,
                        !.args = <<points>>, !.skipLast = skipLast,
                        !.out = approximate(Heap, self, points, skipLast),
                        !.heap = Heap])

\* new BezierSegmentState(s, sc, ec, e) taking the place of a segment that no
\* segment refers to: the new object has no neighbours.
CallNewCurve(self, s, sc, ec, e) ==
    /\ \A t \in Seg : previous[t] # self /\ next[t] # self
    /\ Call([Heap EXCEPT !.start[self] = Curve(s, sc, ec, e).start,
                         !.startControl[self] = Curve(s, sc, ec, e).startControl,
                         !.endControl[self] = Curve(s, sc, ec, e).endControl,
                         !.end[self] = Curve(s, sc, ec, e).end,
                         !.previous[self] = Null,
                         !.next[self] = Null],
            [NoCall EXCEPT !.op = "newCurve", !.self = self,
                           !.args = <<s, sc, ec, e>>])

Within(n) == steps < n

\* The public mutators called with their default arguments: sync = true,
\* copyDirection = true for setPreviousSegment and undefined for setNextSegment.
Next ==
    \/ \E a \in Seg, b \in SegOrNull :
        Within(MaxSteps) /\ CallSetPreviousSegment(a, b, TRUE, TRUE)
    \/ \E a \in Seg, b \in SegOrNull :
        Within(MaxSteps) /\ CallSetNextSegment(a, b, TRUE, FALSE)
    \/ \E a \in Seg, v \in Input : Within(MaxSteps) /\ CallSetStart(a, v, TRUE)
    \/ \E a \in Seg, v \in Input : Within(MaxSteps) /\ CallSetEnd(a, v, TRUE)
    \/ \E a \in Seg, v \in Input : Within(MaxSteps) /\ CallMoveStart(a, v)
    \/ \E a \in Seg, v \in Input : Within(MaxSteps) /\ CallMoveEnd(a, v)
    \/ \E a \in Seg, v \in Input : Within(MaxSteps) /\ CallSetStartControl(a, v)
    \/ \E a \in Seg, v \in Input : Within(MaxSteps) /\ CallSetEndControl(a, v)

Spec == Init /\ [][Next]_vars

\* Only the two link operations, called with their default arguments.
NextLink ==
    \/ \E a \in Seg, b \in SegOrNull :
        Within(MaxLinkSteps) /\ CallSetPreviousSegment(a, b, TRUE, TRUE)
    \/ \E a \in Seg, b \in SegOrNull :
        Within(MaxLinkSteps) /\ CallSetNextSegment(a, b, TRUE, FALSE)

SpecLink == Init /\ [][NextLink]_vars

\* The two link operations, called with every value of sync and copyDirection
\* (an omitted copyDirection of setNextSegment is the value false).
NextFlags ==
    \/ \E a \in Seg, b \in SegOrNull, s \in BOOLEAN, c \in BOOLEAN :
        Within(MaxFlagSteps) /\ CallSetPreviousSegment(a, b, s, c)
    \/ \E a \in Seg, b \in SegOrNull, s \in BOOLEAN, c \in BOOLEAN :
        Within(MaxFlagSteps) /\ CallSetNextSegment(a, b, s, c)

SpecFlags == Init /\ [][NextFlags]_vars

\* Curves: the four-point constructor and the setters of the control points,
\* of their deltas and of the directions.
NextCurve ==
    \/ \E a \in Seg, s \in Input, sc \in Input, ec \in Input, e \in Input :
        Within(MaxCurveSteps) /\ CallNewCurve(a, s, sc, ec, e)
    \/ \E a \in Seg, v \in Input : Within(MaxCurveSteps) /\ CallSetStartControl(a, v)
    \/ \E a \in Seg, v \in Input : Within(MaxCurveSteps) /\ CallSetEndControl(a, v)
    \/ \E a \in Seg, v \in Input :
        Within(MaxCurveSteps) /\ CallSetStartControlDelta(a, v)
    \/ \E a \in Seg, v \in Input :
        Within(MaxCurveSteps) /\ CallSetEndControlDelta(a, v)
    \/ \E a \in Seg, d \in Directions :
        Within(MaxCurveSteps) /\ CallSetStartDirection(a, d)
    \/ \E a \in Seg, d \in Directions :
        Within(MaxCurveSteps) /\ CallSetEndDirection(a, d)

SpecCurve == InitCurve /\ [][NextCurve]_vars

\* Linking curves: the two link operations with every value of sync and
\* copyDirection, on segments made by the four-point constructor.
NextCurveLink ==
    \/ \E a \in Seg, b \in SegOrNull, s \in BOOLEAN, c \in BOOLEAN :
        Within(MaxCurveLinkSteps) /\ CallSetPreviousSegment(a, b, s, c)
    \/ \E a \in Seg, b \in SegOrNull, s \in BOOLEAN, c \in BOOLEAN :
        Within(MaxCurveLinkSteps) /\ CallSetNextSegment(a, b, s, c)

SpecCurveLink == InitCurve /\ [][NextCurveLink]_vars

\* Sampling linked curves: the link operations with their default arguments
\* and approximate, on segments made by the four-point constructor.
NextApprox ==
    \/ \E a \in Seg, b \in SegOrNull :
        Within(MaxApproxSteps) /\ CallSetPreviousSegment(a, b, TRUE, TRUE)
    \/ \E a \in Seg, b \in SegOrNull :
        Within(MaxApproxSteps) /\ CallSetNextSegment(a, b, TRUE, FALSE)
    \/ \E a \in Seg, n \in 1..MaxPoints, skipLast \in BOOLEAN :
        Within(MaxApproxSteps) /\ CallApproximate(a, n, skipLast)

SpecApprox == InitCurve /\ [][NextApprox]_vars

\* ---------------------------------------------------------------- call stack
\* The mutators that call into a neighbour (setPreviousSegment, setNextSegment,
\* setStart, setEnd) executed statement by statement: stack holds one frame per
\* call in progress, the innermost last, and is empty between calls. A frame
\* holds the receiver, the arguments and the position in the method body.
Frame(op, self, segment, vec, sync, copyDirection) ==
    [op |-> op, self |-> self, segment |-> segment, vec |-> vec,
     sync |-> sync, copyDirection |-> copyDirection, pc |-> "enter"]

\* A call into a neighbour that leaves sync at its default, true.
NestedSync(op, self, segment, vec, copyDirection) ==
    Frame(op, self, segment, vec, TRUE, copyDirection)
\* The call a mutator makes into a neighbour: `x.setY(..., false)`.
Nested(op, self, segment, vec, copyDirection) ==
    Frame(op, self, segment, vec, FALSE, copyDirection)

Top == stack[Len(stack)]
At(pc) == [stack EXCEPT ![Len(stack)].pc = pc]
Return == SubSeq(stack, 1, Len(stack) - 1)

SetHeap(h) ==
    /\ start' = h.start
    /\ startControl' = h.startControl
    /\ endControl' = h.endControl
    /\ end' = h.end
    /\ previous' = h.previous
    /\ next' = h.next

\* A public call starts: its frame is pushed on the empty stack.
Invoke(f, l, h) ==
    /\ stack = <<>>
    /\ InRange(h)
    /\ stack' = <<f>>
    /\ last' = [l EXCEPT !.heap = h]
    /\ steps' = steps + 1
    /\ SetHeap(Heap)

InvokeSetPreviousSegment(self, segment, sync, copyDirection) ==
    Invoke(Frame("setPreviousSegment", self, segment, 0, sync, copyDirection),
           [NoCall EXCEPT !.op = "setPreviousSegment", !.self = self,
                          !.segment = segment, !.sync = sync,
                          !.copyDirection = copyDirection,
                          !.current = previous[self]],
           setPreviousSegment(Heap, self, segment, sync, copyDirection))

InvokeSetNextSegment(self, segment, sync, copyDirection) ==
    Invoke(Frame("setNextSegment", self, segment, 0, sync, copyDirection),
           [NoCall EXCEPT !.op = "setNextSegment", !.self = self,
                          !.segment = segment, !.sync = sync,
                          !.copyDirection = copyDirection,
                          !.current = next[self]],
           setNextSegment(Heap, self, segment, sync, copyDirection))

InvokeSetStart(self, vec, sync) ==
    Invoke(Frame("setStart", self, Null, vec, sync, FALSE),
           [NoCall EXCEPT !.op = "setStart", !.self = self, !.vec = vec,
                          !.sync = sync],
           setStart(Heap, self, vec, sync))

InvokeSetEnd(self, vec, sync) ==
    Invoke(Frame("setEnd", self, Null, vec, sync, FALSE),
           [NoCall EXCEPT !.op = "setEnd", !.self = self, !.vec = vec,
                          !.sync = sync],
           setEnd(Heap, self, vec, sync))

\* The running method calls into a neighbour and will resume at pc.
CallInto(pc, f) ==
    /\ Len(stack) < MaxDepth
    /\ stack' = Append(At(pc), f)

\* One step of the innermost call, a setPreviousSegment.
StepSetPreviousSegment ==
    /\ stack # <<>>
    /\ Top.op = "setPreviousSegment"
    /\ LET self == Top.self
           segment == Top.segment
           current == previous[self]
           h2 == [Heap EXCEPT !.previous[self] = segment]
           newStart == getEnd(h2, segment)
           h3 == [h2 EXCEPT !.start[self] = newStart]
           h4 == IF Top.copyDirection
                 THEN setStartDirection(h3, self, getEndDirection(h3, segment) * (0 - 1))
                 ELSE h3
       IN  CASE Top.pc = "enter" ->
                  /\ SetHeap(Heap)
                  /\ IF segment = current THEN stack' = Return
                     ELSE IF Top.sync /\ current # Null
                     THEN CallInto("link", Nested("setNextSegment", current, Null, 0, FALSE))
                     ELSE stack' = At("link")
             [] Top.pc = "link" ->
                  IF segment # Null
                  THEN /\ SetHeap(h4)
                       /\ IF Top.sync
                          THEN CallInto("return", Nested("setNextSegment", segment, self, 0, FALSE))
                          ELSE stack' = Return
                  ELSE /\ SetHeap([Heap EXCEPT !.previous[self] = Null])
                       /\ stack' = Return
             [] Top.pc = "return" ->
                  /\ SetHeap(Heap)
                  /\ stack' = Return
    /\ UNCHANGED <<last, steps>>

\* One step of the innermost call, a setNextSegment.
StepSetNextSegment ==
    /\ stack # <<>>
    /\ Top.op = "setNextSegment"
    /\ LET self == Top.self
           segment == Top.segment
           current == next[self]
           h2 == [Heap EXCEPT !.next[self] = segment]
           newEnd == getStart(h2, segment)
           h3 == [h2 EXCEPT !.start[self] = newEnd]
           h4 == IF Top.copyDirection
                 THEN setEndDirection(h3, self, getStartDirection(h3, segment) * (0 - 1))
                 ELSE h3
       IN  CASE Top.pc = "enter" ->
                  /\ SetHeap(Heap)
                  /\ IF segment = current THEN stack' = Return
                     ELSE IF Top.sync /\ current # Null
                     THEN CallInto("link", Nested("setPreviousSegment", current, Null, 0, TRUE))
                     ELSE stack' = At("link")
             [] Top.pc = "link" ->
                  IF segment # Null
                  THEN /\ SetHeap(h4)
                       /\ IF Top.sync
                          THEN CallInto("return", Nested("setPreviousSegment", segment, self, 0, TRUE))
                          ELSE stack' = Return
                  ELSE /\ SetHeap([Heap EXCEPT !.next[self] = Null])
                       /\ stack' = Return
             [] Top.pc = "return" ->
                  /\ SetHeap(Heap)
                  /\ stack' = Return
    /\ UNCHANGED <<last, steps>>

\* One step of the innermost call, a setStart.
StepSetStart ==
    /\ stack # <<>>
    /\ Top.op = "setStart"
    /\ LET self == Top.self
           prev == previous[self]
       IN  CASE Top.pc = "enter" ->
                  /\ SetHeap([Heap EXCEPT !.start[self] = Top.vec])
                  /\ IF Top.sync /\ prev # Null
                     THEN CallInto("return", Nested("setEnd", prev, Null, Top.vec, FALSE))
                     ELSE stack' = Return
             [] Top.pc = "return" ->
                  /\ SetHeap(Heap)
                  /\ stack' = Return
    /\ UNCHANGED <<last, steps>>

\* One step of the innermost call, a setEnd.
StepSetEnd ==
    /\ stack # <<>>
    /\ Top.op = "setEnd"
    /\ LET self == Top.self
           nxt == next[self]
       IN  CASE Top.pc = "enter" ->
                  /\ SetHeap([Heap EXCEPT !.end[self] = Top.vec])
                  /\ IF Top.sync /\ nxt # Null
                     THEN CallInto("return", Nested("setStart", nxt, Null, Top.vec, FALSE))
                     ELSE stack' = Return
             [] Top.pc = "return" ->
                  /\ SetHeap(Heap)
                  /\ stack' = Return
    /\ UNCHANGED <<last, steps>>

\* The code runs to completion: whenever a call is in progress its next
\* statement is executed.
Step ==
    \/ StepSetPreviousSegment
    \/ StepSetNextSegment
    \/ StepSetStart
    \/ StepSetEnd

\* Calls of the four mutators with every value of sync (copyDirection at its
\* default), each executed statement by statement before the next call starts.
NextStack ==
    \/ \E a \in Seg, b \in SegOrNull, s \in BOOLEAN :
        Within(MaxStackSteps) /\ InvokeSetPreviousSegment(a, b, s, TRUE)
    \/ \E a \in Seg, b \in SegOrNull, s \in BOOLEAN :
        Within(MaxStackSteps) /\ InvokeSetNextSegment(a, b, s, FALSE)
    \/ \E a \in Seg, v \in Input, s \in BOOLEAN :
        Within(MaxStackSteps) /\ InvokeSetStart(a, v, s)
    \/ \E a \in Seg, v \in Input, s \in BOOLEAN :
        Within(MaxStackSteps) /\ InvokeSetEnd(a, v, s)
    \/ StepSetPreviousSegment
    \/ StepSetNextSegment
    \/ StepSetStart
    \/ StepSetEnd

\* Three unlinked straight segments from 0 to 1.
InitStack ==
    /\ start = [s \in Seg |-> Straight(0, 1).start]
    /\ startControl = [s \in Seg |-> Straight(0, 1).startControl]
    /\ endControl = [s \in Seg |-> Straight(0, 1).endControl]
    /\ end = [s \in Seg |-> Straight(0, 1).end]
    /\ previous = [s \in Seg |-> Null]
    /\ next = [s \in Seg |-> Null]
    /\ last = NoCall
    /\ steps = 0
    /\ stack = <<>>

SpecStack == InitStack /\ [][NextStack]_vars /\ WF_vars(Step)

\* ---------------------------------------------------------------- claims
\* C1: symmetry of the chain relation: for all segments A and B,
\* A.getNextSegment() == B if and only if B.getPreviousSegment() == A.
C1_Symmetry ==
    \A a \in Seg, b \in Seg : (next[a] = b) <=> (previous[b] = a)

\* C2: for any two segments A and B, immediately after A.setNextSegment(B)
\* returns (default sync), A.getEnd() == B.getStart().
C2_JointAfterLink ==
    [][\A a \in Seg, b \in Seg :
          (a # b /\ last'.op = "setNextSegment" /\ last'.self = a /\ last'.segment = b)
              => end'[a] = start'[b]]_vars

\* C3: whenever A.next == B and B.previous == A, the shared joint coincides:
\* A.getEnd() == B.getStart().
C3_ChainJoint ==
    \A a \in Seg, b \in Seg :
        (next[a] = b /\ previous[b] = a) => end[a] = start[b]

\* C4: A.setNextSegment(B), B non-null and not A's current next, leaves A's end
\* equal to the start B had before the call, and A's start unchanged.
C4_NextCopiesStartIntoEnd ==
    [][\A a \in Seg, b \in Seg :
          (/\ last'.op = "setNextSegment" /\ last'.self = a /\ last'.segment = b
           /\ next[a] # b)
              => (end'[a] = start[b] /\ start'[a] = start[a])]_vars

Unlinked(s) == previous[s] = Null /\ next[s] = Null

\* C5: for unlinked segments A and B, after B.setPreviousSegment(A) B's start is
\* the end A had before the call, and A's four points are unchanged.
C5_PreviousMovesOnlyThis ==
    [][\A a \in Seg, b \in Seg :
          (/\ a # b /\ Unlinked(a) /\ Unlinked(b)
           /\ last'.op = "setPreviousSegment" /\ last'.self = b /\ last'.segment = a)
              => (/\ start'[b] = end[a]
                  /\ start'[a] = start[a]
                  /\ startControl'[a] = startControl[a]
                  /\ endControl'[a] = endControl[a]
                  /\ end'[a] = end[a])]_vars

\* C6: replacement. If A.next == B and B.previous == A, then after
\* A.setNextSegment(C), C non-null and distinct from B, B has no previous, C's
\* previous is A and A's next is C; and if B.previous == A and A.next == B,
\* then after B.setPreviousSegment(C), C non-null and distinct from A, A has no
\* next, C's next is B and B's previous is C.
C6_Replacement ==
    [][\A a \in Seg, b \in Seg, c \in Seg :
          /\ (/\ next[a] = b /\ previous[b] = a /\ c # b
              /\ last'.op = "setNextSegment" /\ last'.self = a /\ last'.segment = c)
                 => (previous'[b] = Null /\ previous'[c] = a /\ next'[a] = c)
          /\ (/\ previous[b] = a /\ next[a] = b /\ c # a
              /\ last'.op = "setPreviousSegment" /\ last'.self = b /\ last'.segment = c)
                 => (next'[a] = Null /\ next'[c] = b /\ previous'[b] = c)]_vars

\* A state right after A.setNextSegment(C) replaced a mutual link A - B, B # C.
C6_Witness ==
    /\ last.op = "setNextSegment"
    /\ last.current # Null
    /\ last.mutual
    /\ last.segment \notin {Null, last.current, last.self}
    /\ last.current # last.self
    /\ previous[last.current] = Null
    /\ previous[last.segment] = last.self
    /\ next[last.self] = last.segment

\* C7: idempotence of linking. A link call that repeats the call before it
\* (same method, receiver and argument, null included) leaves every field of
\* every segment as the first call left it.
C7_LinkIdempotent ==
    [][(/\ last'.op \in {"setNextSegment", "setPreviousSegment"}
        /\ SameCall(last', last))
          => (/\ start' = start /\ startControl' = startControl
              /\ endControl' = endControl /\ end' = end
              /\ previous' = previous /\ next' = next)]_vars

\* A state right after the second of two equal A.setNextSegment(B) calls, with
\* A's start (B's start as the first call copied it) different from A's end
\* (B's start now): a second copy would move A's start.
C7_Witness ==
    /\ last.op = "setNextSegment"
    /\ last.again
    /\ last.segment \notin {Null, last.self}
    /\ next[last.self] = last.segment
    /\ start[last.self] # end[last.self]

\* C8: once A.next == B, B.previous == A and A.end == B.start, a setStart(v) or
\* setEnd(v) call (default sync) on A or B keeps A.getEnd() == B.getStart().
C8_AnchorPropagation ==
    [][\A a \in Seg, b \in Seg :
          (/\ next[a] = b /\ previous[b] = a /\ end[a] = start[b]
           /\ last'.op \in {"setStart", "setEnd"} /\ last'.self \in {a, b})
              => end'[a] = start'[b]]_vars

\* C9: B.setStart(v) with sync = true changes only B.start and the end of B's
\* previous segment; B.setEnd(v) changes only B.end and the start of B's next
\* segment. Controls, links and every other anchor of every segment stay.
C9_AnchorFrame ==
    [][\A b \in Seg :
          /\ (last'.op = "setStart" /\ last'.self = b /\ last'.sync)
                => (/\ start'[b] = last'.vec
                    /\ startControl' = startControl /\ endControl' = endControl
                    /\ previous' = previous /\ next' = next
                    /\ \A s \in Seg \ {b} : start'[s] = start[s]
                    /\ \A s \in Seg \ {previous[b]} : end'[s] = end[s])
          /\ (last'.op = "setEnd" /\ last'.self = b /\ last'.sync)
                => (/\ end'[b] = last'.vec
                    /\ startControl' = startControl /\ endControl' = endControl
                    /\ previous' = previous /\ next' = next
                    /\ \A s \in Seg \ {b} : end'[s] = end[s]
                    /\ \A s \in Seg \ {next[b]} : start'[s] = start[s])]_vars

\* A state right after B.setStart(v) on a segment B whose previous segment A
\* has another segment as its next: A's end is v, that other segment's start
\* is not.
C9_Witness ==
    /\ last.op = "setStart"
    /\ last.sync
    /\ previous[last.self] \notin {Null, last.self}
    /\ end[previous[last.self]] = last.vec
    /\ next[previous[last.self]] \notin {Null, last.self}
    /\ start[next[previous[last.self]]] # last.vec

\* C10: moveStart(v) leaves getStartControlDelta() as it was and sets
\* getStart() to v; moveEnd(v) leaves getEndControlDelta() as it was and sets
\* getEnd() to v.
C10_MoveKeepsDelta ==
    [][\A a \in Seg :
          /\ (last'.op = "moveStart" /\ last'.self = a)
                => (/\ startControl'[a] - start'[a] = getStartControlDelta(Heap, a)
                    /\ start'[a] = last'.vec)
          /\ (last'.op = "moveEnd" /\ last'.self = a)
                => (/\ endControl'[a] - end'[a] = getEndControlDelta(Heap, a)
                    /\ end'[a] = last'.vec)]_vars

\* A state right after a moveStart(v) that moved a start whose control delta
\* is not zero.
C10_Witness ==
    /\ last.op = "moveStart"
    /\ start[last.self] = last.vec
    /\ startControl[last.self] # start[last.self]

\* C11: unlinking does not move any points: A.setNextSegment(null) and
\* A.setPreviousSegment(null), with any sync value, leave start, startControl,
\* endControl and end of every segment unchanged.
C11_UnlinkKeepsPoints ==
    [][(/\ last'.op \in {"setNextSegment", "setPreviousSegment"}
        /\ last'.segment = Null)
          => (/\ start' = start /\ startControl' = startControl
              /\ endControl' = endControl /\ end' = end)]_vars

\* A state right after a synchronized setNextSegment(null) that unlinked
\* another segment on both sides, the start control of that segment away from
\* its start and its start away from the receiver's.
C11_Witness ==
    /\ last.op = "setNextSegment"
    /\ last.segment = Null
    /\ last.sync
    /\ last.current \notin {Null, last.self}
    /\ next[last.self] = Null
    /\ previous[last.current] = Null
    /\ startControl[last.current] # start[last.current]
    /\ start[last.current] # start[last.self]

\* C12 as stated, for two segments A and B: if A.next = B and B.previous = A, then after
\* A.setNextSegment(null) with its default arguments A.next is null and
\* B.previous is still A; symmetrically for setPreviousSegment(null).
C12_UnlinkThisSideOnly ==
    [][/\ (/\ last'.op = "setNextSegment" /\ last'.segment = Null
           /\ last'.sync /\ ~last'.copyDirection /\ last'.mutual
           /\ last'.current # last'.self)
            => (/\ next'[last'.self] = Null
                /\ previous'[last'.current] = last'.self)
       /\ (/\ last'.op = "setPreviousSegment" /\ last'.segment = Null
           /\ last'.sync /\ last'.copyDirection /\ last'.mutual
           /\ last'.current # last'.self)
            => (/\ previous'[last'.self] = Null
                /\ next'[last'.current] = last'.self)]_vars

\* C12: unlinking with the default arguments clears the relation on both
\* sides: if A.next = B and B.previous = A, then after A.setNextSegment(null)
\* both A.next and B.previous are null; called with sync = false it clears
\* A.next and leaves B.previous as it was (A itself when A = B).
\* Symmetrically for setPreviousSegment(null).
C12_UnlinkBothSides ==
    [][/\ (/\ last'.op = "setNextSegment" /\ last'.segment = Null /\ last'.mutual)
            => (/\ next'[last'.self] = Null
                /\ previous'[last'.current] =
                     IF last'.sync THEN Null ELSE previous[last'.current])
       /\ (/\ last'.op = "setPreviousSegment" /\ last'.segment = Null /\ last'.mutual)
            => (/\ previous'[last'.self] = Null
                /\ next'[last'.current] =
                     IF last'.sync THEN Null ELSE next[last'.current])]_vars

\* A state right after a default A.setNextSegment(null) on a mutual link A - B
\* between two segments: neither side refers to the other any more.
C12_Witness ==
    /\ last.op = "setNextSegment"
    /\ last.segment = Null
    /\ last.sync
    /\ ~last.copyDirection
    /\ last.mutual
    /\ last.current # last.self
    /\ next[last.self] = Null
    /\ previous[last.current] = Null

\* C13: direction propagation: for two segments A and B whose control deltas
\* at the joint (A's end delta, B's start delta) are non-zero before and after
\* the call, after a linking A.setNextSegment(B, sync = true,
\* copyDirection = true) A.getEndDirection() is the negation of
\* B.getStartDirection().
C13_DirectionPropagation ==
    [][(/\ last'.op = "setNextSegment"
        /\ last'.sync /\ last'.copyDirection
        /\ last'.segment \notin {Null, last'.self, last'.current}
        /\ getEndControlDelta(Heap, last'.self) # 0
        /\ getStartControlDelta(Heap, last'.segment) # 0
        /\ getEndControlDelta(Heap', last'.self) # 0
        /\ getStartControlDelta(Heap', last'.segment) # 0)
          => getEndDirection(Heap', last'.self)
               = getStartDirection(Heap', last'.segment) * (0 - 1)]_vars

\* C14: setStartDirection(dir) decouples direction from magnitude: called with
\* a non-zero dir on a segment whose start control delta is non-zero, it leaves
\* the length of getStartControlDelta() as it was, makes getStartDirection()
\* the normalized dir and leaves getStart() unchanged; likewise
\* setEndDirection for the end control delta.
C14_DirectionKeepsLength ==
    [][/\ (/\ last'.op = "setStartDirection"
           /\ getStartControlDelta(Heap, last'.self) # 0)
            => (/\ Length(getStartControlDelta(Heap', last'.self))
                     = Length(getStartControlDelta(Heap, last'.self))
                /\ getStartDirection(Heap', last'.self) = Normalize(last'.vec)
                /\ getStart(Heap', last'.self) = getStart(Heap, last'.self))
       /\ (/\ last'.op = "setEndDirection"
           /\ getEndControlDelta(Heap, last'.self) # 0)
            => (/\ Length(getEndControlDelta(Heap', last'.self))
                     = Length(getEndControlDelta(Heap, last'.self))
                /\ getEndDirection(Heap', last'.self) = Normalize(last'.vec)
                /\ getEnd(Heap', last'.self) = getEnd(Heap, last'.self))]_vars

\* C15: control points are returned as the absolute points that were given:
\* after new BezierSegmentState(start, startControl, endControl, end),
\* getStartControl() is startControl, getEndControl() is endControl and
\* getPlain() is the four arguments; after setStartControl(p) /
\* setEndControl(p), getStartControl() / getEndControl() returns p.
C15_AbsoluteControls ==
    [][/\ last'.op = "newCurve"
            => (/\ getStartControl(Heap', last'.self) = last'.args[2]
                /\ getEndControl(Heap', last'.self) = last'.args[3]
                /\ getPlain(Heap', last'.self)
                     = [start |-> last'.args[1], startControl |-> last'.args[2],
                        endControl |-> last'.args[3], end |-> last'.args[4]])
       /\ last'.op = "setStartControl"
            => getStartControl(Heap', last'.self) = last'.vec
       /\ last'.op = "setEndControl"
            => getEndControl(Heap', last'.self) = last'.vec]_vars

\* C16: control-delta round trip: after setStartControlDelta(d),
\* getStartControlDelta() returns d and getStart() is unchanged; likewise
\* after setEndControlDelta(d), getEndControlDelta() returns d.
C16_DeltaRoundTrip ==
    [][/\ last'.op = "setStartControlDelta"
            => (/\ getStartControlDelta(Heap', last'.self) = last'.vec
                /\ getStart(Heap', last'.self) = getStart(Heap, last'.self))
       /\ last'.op = "setEndControlDelta"
            => getEndControlDelta(Heap', last'.self) = last'.vec]_vars

\* C17: bounded recursion of the synchronization protocol: every call of
\* setNextSegment, setPreviousSegment, setStart or setEnd returns, in every
\* link configuration (cycles and self-links included); every call made into
\* a neighbour passes sync = false, and the calls in progress are never more
\* than the caller's call and one call below it.
C17_BoundedRecursion ==
    /\ [](/\ Len(stack) <= 2
          /\ \A i \in 2..Len(stack) : ~stack[i].sync)
    /\ [](stack # <<>> => <>(stack = <<>>))

\* A nested call in progress in a cyclic chain: A.next = B and B.next = A, a
\* synchronized setEnd on one of them is inside its call to setStart on the
\* other.
C17_Witness ==
    /\ Len(stack) = 2
    /\ stack[1].op = "setEnd"
    /\ stack[1].sync
    /\ stack[2].op = "setStart"
    /\ stack[2].self # stack[1].self
    /\ next[stack[1].self] = stack[2].self
    /\ next[stack[2].self] = stack[1].self

\* C18: direction copying happens only when requested: a call
\* A.setNextSegment(B, sync = true, copyDirection = false) or
\* B.setPreviousSegment(A, sync = true, copyDirection = false) leaves the stored
\* startControl and endControl of both A and B unchanged.
C18_NoCopyKeepsControls ==
    [][(/\ last'.op \in {"setNextSegment", "setPreviousSegment"}
        /\ last'.sync /\ ~last'.copyDirection
        /\ last'.segment # Null)
          => \A s \in {last'.self, last'.segment} :
                /\ startControl'[s] = startControl[s]
                /\ endControl'[s] = endControl[s]]_vars

\* C19: link operations are local: A.setNextSegment(B) and
\* A.setPreviousSegment(B), with any sync and copyDirection and B possibly
\* null, change no field of any segment other than A, A's former neighbour on
\* that side and B; a segment that was B's neighbour on the other side before
\* the call keeps all six fields.
C19_LinkIsLocal ==
    [][last'.op \in {"setNextSegment", "setPreviousSegment"}
          => \A s \in Seg \ {last'.self, last'.current, last'.segment} :
                /\ start'[s] = start[s]
                /\ startControl'[s] = startControl[s]
                /\ endControl'[s] = endControl[s]
                /\ end'[s] = end[s]
                /\ previous'[s] = previous[s]
                /\ next'[s] = next[s]]_vars

\* A state right after a synchronized A.setNextSegment(B) that took B from
\* its former previous segment P, a third segment: P still has B as its next.
C19_Witness ==
    /\ last.op = "setNextSegment"
    /\ last.sync
    /\ last.segment \notin {Null, last.self}
    /\ previous[last.segment] = last.self
    /\ \E p \in Seg \ {last.self, last.current, last.segment} :
          next[p] = last.segment

\* C20: approximate(n, skipLast) is the uniform sampling with the final node
\* optionally dropped: for n >= 1, approximate(n, false) returns the n sampled
\* points in order (the start first and, for n >= 2, the end last), and
\* approximate(n, true) returns the first n - 1 of them in the same order; when
\* the segment has a next segment starting at its end, its approximate(n, true)
\* followed by the next segment's approximate(n, false) has 2n - 1 points, the
\* joint being the n-th and coming from the next segment alone; the call
\* changes no segment field.
C20_Approximate ==
    last.op = "approximate" =>
        LET self == last.self
            n == last.args[1]
            m == IF n = 1 THEN 1 ELSE n - 1
            before == last.heap
            nodes == sampleBezier(getPlain(before, self), n)
            all == approximate(before, self, n, FALSE)
            nxt == before.next[self]
            cat == last.out \o approximate(Heap, nxt, n, FALSE)
        IN  /\ Len(all) = n
            /\ \A i \in 1..n : all[i] = nodes[i].point
            /\ all[1] = m * m * m * before.start[self]
            /\ n >= 2 => all[n] = m * m * m * before.end[self]
            /\ ~last.skipLast => last.out = all
            /\ last.skipLast =>
                  /\ Len(last.out) = n - 1
                  /\ \A i \in 1..(n - 1) : last.out[i] = all[i]
            /\ (last.skipLast /\ nxt # Null /\ before.end[self] = before.start[nxt]) =>
                  /\ Len(cat) = 2 * n - 1
                  /\ cat[n] = m * m * m * before.end[self]
                  /\ \A i \in 1..(n - 1) : cat[i] = nodes[i].point /\ nodes[i].t < m
            /\ Heap = before

\* A state right after approximate(3, true) on a bent segment whose next
\* segment starts at its end: two points were returned, the end left out.
C20_Witness ==
    /\ last.op = "approximate"
    /\ last.args = <<3>>
    /\ last.skipLast
    /\ Len(last.out) = 2
    /\ next[last.self] \notin {Null, last.self}
    /\ start[next[last.self]] = end[last.self]
    /\ getStartControlDelta(Heap, last.self) # 0
    /\ getEndControlDelta(Heap, last.self) # 0
    /\ last.out[2] # 8 * end[last.self]

\* The heap a call leaves when its last statement has run is the heap the
\* method computes as a whole.
StackAgrees ==
    (stack = <<>> /\ last.op # "approximate" /\ last.heap # <<>>) => Heap = last.heap


====
